---- MODULE Spec2Model ----
(***************************************************************************)
(* Model of the playing-card classifier pipeline (model.py, main.py).      *)
(*                                                                         *)
(* Abstractions, all of library code that is not part of the repository:   *)
(*  - a class subdirectory name is a natural number; lexicographic order   *)
(*    of names is numeric order;                                           *)
(*  - an image (file content after the transform) is a natural number;     *)
(*  - the tensors of a Classifier are three version numbers: bb (backbone  *)
(*    weights), head (the nn.Linear head) and bn (the BatchNorm running    *)
(*    statistics, buffers that are part of state_dict()); a fresh          *)
(*    Classifier has all three at 0, an optimizer step adds one to bb and  *)
(*    head, a forward pass in training mode adds one to bn;                *)
(*  - the network is a deterministic function Logit of the tensors and     *)
(*    the image; softmax is taken in base 2 with integer percentages;      *)
(*  - loss values are not modelled, only the number of entries of the      *)
(*    two loss lists;                                                      *)
(*  - matplotlib figures (display_result, the loss curves) leave no trace  *)
(*    in the state of the program, so the visualize flags are not kept.    *)
(***************************************************************************)
EXTENDS Integers, Sequences, FiniteSets, TLC

VARIABLES
    disk,            \* on-disk dataset: [train, valid, test |-> [dir |-> <<image, ...>>]]
    train_dataset,   \* model.py:54  [classes, samples]
    val_dataset,     \* model.py:55
    test_dataset,    \* model.py:56
    class_names,     \* model.py:138
    checkpoint,      \* the file at model_path: <<>> (no file) or <<state dict>>
    models,          \* the Classifier objects alive in the process
    pc,              \* position of the single thread of control
    raised,          \* the exception that ended the last call, or "none"
    t_model,         \* train_model: which Classifier object `model` is bound to
    t_epochs,        \* train_model: epochs
    epoch,           \* train_model: epoch
    batch,           \* train_model: batches of the current phase already consumed
    train_losses,    \* train_model: len(train_losses)
    val_losses,      \* train_model: len(val_losses)
    runs,            \* number of train_model calls made so far
    start_state,     \* history: <<state dict of `model` when the current run began>>
    ckpt_before,     \* history: checkpoint file when the current run began
    writes,          \* history: writes of the checkpoint file in the current run
    saved_from,      \* history: <<the Classifier as it was when the file was saved>>
    e_model,         \* test_model: which Classifier object `model` is bound to
    test_i,          \* test_model: samples of test_dataset already iterated
    wrong_predictions_count,
    correct_predictions_count,
    confidence_list,
    report,          \* what test_model printed: <<>> or <<record>>
    images,          \* main.py:16 glob result
    loop_i,          \* main.py:17 paths already taken from images
    loop_base,       \* history: len(results) when the loop began
    results,         \* history: one record per predict_image call that returned
    replaced         \* the environment has replaced the checkpoint file

vars == <<disk, train_dataset, val_dataset, test_dataset, class_names, checkpoint,
          models, pc, raised, t_model, t_epochs, epoch, batch, train_losses,
          val_losses, runs, start_state, ckpt_before, writes, saved_from, e_model,
          test_i, wrong_predictions_count, correct_predictions_count,
          confidence_list, report, images, loop_i, loop_base, results, replaced>>

dataVars  == <<disk, train_dataset, val_dataset, test_dataset, class_names>>
trainVars == <<t_model, t_epochs, epoch, batch, train_losses, val_losses, runs,
               start_state, ckpt_before, writes, saved_from>>
testVars  == <<e_model, test_i, wrong_predictions_count,
               correct_predictions_count, confidence_list, report>>
loopVars  == <<images, loop_i, loop_base, results>>

----------------------------------------------------------------------------
(* Bounds of the model *)

MaxDirs == 2          \* class subdirectory names are 1..MaxDirs
MaxFiles == 1         \* files per class subdirectory of the test split
MaxImage == 1         \* images are 0..MaxImage
MaxParam == 1         \* tensor versions of a checkpoint written elsewhere
MaxEpochs == 2        \* epochs argument of train_model
MaxRuns == 2          \* train_model calls in one process
MaxGlob == 2          \* files matched by glob("./dataset/predict/*")
LogitMod == 3         \* range of a logit

(* Program constants *)

DefaultNumClasses == 53   \* num_classes=53
BatchSize == 32           \* batch_size=32

Dirs == 1..MaxDirs
Images == 0..MaxImage

----------------------------------------------------------------------------
(* DATA *)

Min(S) == CHOOSE x \in S : \A y \in S : x <= y

RECURSIVE SortedSeq(_)
SortedSeq(S) == IF S = {} THEN <<>>
                ELSE <<Min(S)>> \o SortedSeq(S \ {Min(S)})

\* ImageFolder.classes behind PlayingCardDataset.classes: the sorted names of
\* the subdirectories of data_dir.
FindClasses(layout) == SortedSeq(DOMAIN layout)

RECURSIVE MakeSamples(_, _, _)
MakeSamples(layout, classes, i) ==
    IF i > Len(classes) THEN <<>>
    ELSE [k \in 1..Len(layout[classes[i]]) |->
             [image |-> layout[classes[i]][k], label |-> i - 1]]
         \o MakeSamples(layout, classes, i + 1)

\* PlayingCardDataset(data_dir, transform): samples ordered by class, then file;
\* the label of a sample is the index of its directory in classes.
PlayingCardDataset(layout) ==
    [classes |-> FindClasses(layout),
     samples |-> MakeSamples(layout, FindClasses(layout), 1)]

\* len(DataLoader(dataset, batch_size=32)): the last batch may be short.
NumBatches(dataset) == (Len(dataset.samples) + BatchSize - 1) \div BatchSize

----------------------------------------------------------------------------
(* DEFINE MODEL *)

\* SimpleCardClassifier(num_classes): pretrained backbone, new linear head,
\* nn.Module starts in training mode.
SimpleCardClassifier(num_classes) ==
    [ncls |-> num_classes, bb |-> 0, head |-> 0, bn |-> 0, training |-> TRUE]

\* state_dict as named_parameters() would give it: the buffers are left out.
state_dict_parameters_only(m) ==
    [ncls |-> m.ncls, bb |-> m.bb, head |-> m.head, bn |-> 0]

\* model.state_dict(): parameters and buffers; the shape of the head comes with
\* it, the training flag does not.
state_dict(m) == [ncls |-> m.ncls, bb |-> m.bb, head |-> m.head, bn |-> m.bn]

\* One logit of forward(x) in evaluation mode.
Logit(m, img, k) == ((k + 1) * (m.head + img + 1) + m.bb + m.bn) % LogitMod

\* The largest of the logits k..ncls-1.
RECURSIVE MaxFrom(_, _, _)
MaxFrom(m, img, k) ==
    IF k = m.ncls - 1 THEN Logit(m, img, k)
    ELSE LET rest == MaxFrom(m, img, k + 1)
             here == Logit(m, img, k)
         IN IF here >= rest THEN here ELSE rest

MaxLogit(m, img) == MaxFrom(m, img, 0)

\* The first index at or after k whose logit is v.
RECURSIVE FirstAt(_, _, _, _)
FirstAt(m, img, v, k) ==
    IF Logit(m, img, k) = v THEN k ELSE FirstAt(m, img, v, k + 1)

\* probabilities.argmax(): the first index of the largest probability.
ArgMax(m, img) == FirstAt(m, img, MaxLogit(m, img), 0)

RECURSIVE Pow2(_)
Pow2(n) == IF n = 0 THEN 1 ELSE 2 * Pow2(n - 1)

RECURSIVE SumPow(_, _, _)
SumPow(m, img, k) ==
    IF k < 0 THEN 0 ELSE Pow2(Logit(m, img, k)) + SumPow(m, img, k - 1)

\* softmax(outputs)[predicted_idx] * 100
Confidence(m, img) ==
    (100 * Pow2(MaxLogit(m, img))) \div SumPow(m, img, m.ncls - 1)

\* model.train() / model.eval()
SetMode(m, training) == [m EXCEPT !.training = training]

\* zero_grad, forward in training mode (BatchNorm updates its running
\* statistics), backward, and one optimizer.step().
TrainStep(m) == [m EXCEPT !.bb = @ + 1, !.head = @ + 1,
                          !.bn = IF m.training THEN @ + 1 ELSE @]

\* A validation step that also backpropagates and steps the optimizer.
ValStepUpdating(m) == [m EXCEPT !.bb = @ + 1, !.head = @ + 1]

\* forward and loss under torch.no_grad() in the validation phase.
ValStep(m) == [m EXCEPT !.bn = IF m.training THEN @ + 1 ELSE @]

\* load_model that skips the file once the model has been loaded before.
load_model_once(file, m) ==
    IF ~m.training THEN [model |-> m, err |-> "none"]
    ELSE IF file = <<>> THEN [model |-> m, err |-> "FileNotFoundError"]
    ELSE IF file[1].ncls # m.ncls
         THEN [model |-> [m EXCEPT !.bb = file[1].bb, !.bn = file[1].bn],
               err |-> "RuntimeError"]
         ELSE [model |-> [ncls |-> m.ncls, bb |-> file[1].bb,
                          head |-> file[1].head, bn |-> file[1].bn,
                          training |-> FALSE],
               err |-> "none"]

\* load_model(model_path, model, device): torch.load raises when the file is
\* missing; load_state_dict copies every tensor whose shape matches and then
\* raises when one did not (the head of a different num_classes); eval() is
\* reached only when nothing was raised.
load_model(file, m) ==
    IF file = <<>> THEN [model |-> m, err |-> "FileNotFoundError"]
    ELSE IF file[1].ncls # m.ncls
         THEN [model |-> [m EXCEPT !.bb = file[1].bb, !.bn = file[1].bn],
               err |-> "RuntimeError"]
         ELSE [model |-> [ncls |-> m.ncls, bb |-> file[1].bb,
                          head |-> file[1].head, bn |-> file[1].bn,
                          training |-> FALSE],
               err |-> "none"]

ModelIds == {"train_default", "test_default", "predict_default", "user"}

\* The three default arguments (model.py:85, 161, 216) are evaluated once, when
\* the module is imported; main.py:6 constructs the caller's own model.
ModelsAtImport(user_ncls) ==
    [id \in ModelIds |->
        IF id = "user" THEN SimpleCardClassifier(user_ncls)
        ELSE SimpleCardClassifier(DefaultNumClasses)]

----------------------------------------------------------------------------
(* TRAIN MODEL *)

\* An exception leaves the function; nothing catches it.
Abort(exc) == /\ pc' = "idle"
              /\ raised' = exc

\* The top level runs its next statement only if nothing was raised.
Alive == pc = "idle" /\ raised = "none"

\* train_model(model_path, model, epochs): entry, optimizer and loss lists.
TrainCall(mid, ep) ==
    /\ Alive
    /\ runs < MaxRuns
    /\ pc' = "epoch"
    /\ t_model' = mid
    /\ t_epochs' = ep
    /\ epoch' = 0
    /\ batch' = 0
    /\ train_losses' = 0
    /\ val_losses' = 0
    /\ runs' = runs + 1
    /\ start_state' = <<state_dict(models[mid])>>
    /\ ckpt_before' = checkpoint
    /\ writes' = 0
    /\ UNCHANGED <<dataVars, checkpoint, models, raised, saved_from, testVars,
                   loopVars, replaced>>

\* for epoch in range(epochs): model.train(); running_loss = 0.0
EpochHead ==
    /\ pc = "epoch"
    /\ IF epoch < t_epochs
       THEN /\ models' = [models EXCEPT ![t_model] = SetMode(@, TRUE)]
            /\ pc' = "train"
       ELSE /\ pc' = "plot"
            /\ UNCHANGED models
    /\ batch' = 0
    /\ UNCHANGED <<dataVars, checkpoint, raised, t_model, t_epochs, epoch,
                   train_losses, val_losses, runs, start_state, ckpt_before,
                   writes, saved_from, testVars, loopVars, replaced>>

\* One iteration of the training loop over train_loader.
TrainBatch ==
    /\ pc = "train"
    /\ batch < NumBatches(train_dataset)
    /\ models' = [models EXCEPT ![t_model] = TrainStep(@)]
    /\ batch' = batch + 1
    /\ UNCHANGED <<dataVars, checkpoint, pc, raised, t_model, t_epochs, epoch,
                   train_losses, val_losses, runs, start_state, ckpt_before,
                   writes, saved_from, testVars, loopVars, replaced>>

\* A batch cannot be read (an unreadable image file): the exception leaves
\* train_model.
BatchError ==
    /\ pc \in {"train", "valid"}
    /\ batch < NumBatches(IF pc = "train" THEN train_dataset ELSE val_dataset)
    /\ Abort("OSError")
    /\ UNCHANGED <<dataVars, checkpoint, models, trainVars, testVars, loopVars, replaced>>

\* train_loss = running_loss / len(train_loader.dataset); model.eval()
TrainPhaseEnd ==
    /\ pc = "train"
    /\ batch = NumBatches(train_dataset)
    /\ IF Len(train_dataset.samples) = 0
       THEN /\ Abort("ZeroDivisionError")
            /\ UNCHANGED <<models, train_losses, batch>>
       ELSE /\ train_losses' = train_losses + 1
            /\ models' = [models EXCEPT ![t_model] = SetMode(@, FALSE)]
            /\ batch' = 0
            /\ pc' = "valid"
            /\ UNCHANGED raised
    /\ UNCHANGED <<dataVars, checkpoint, t_model, t_epochs, epoch, val_losses,
                   runs, start_state, ckpt_before, writes, saved_from, testVars,
                   loopVars, replaced>>

\* One iteration of the validation loop over val_loader.
ValBatch ==
    /\ pc = "valid"
    /\ batch < NumBatches(val_dataset)
    /\ models' = [models EXCEPT ![t_model] = ValStep(@)]
    /\ batch' = batch + 1
    /\ UNCHANGED <<dataVars, checkpoint, pc, raised, t_model, t_epochs, epoch,
                   train_losses, val_losses, runs, start_state, ckpt_before,
                   writes, saved_from, testVars, loopVars, replaced>>

\* An epoch end that also writes the checkpoint (a checkpoint per epoch).
ValPhaseEndSaving ==
    /\ pc = "valid"
    /\ batch = NumBatches(val_dataset)
    /\ IF Len(val_dataset.samples) = 0
       THEN /\ Abort("ZeroDivisionError")
            /\ UNCHANGED <<val_losses, epoch, checkpoint, writes, saved_from>>
       ELSE /\ val_losses' = val_losses + 1
            /\ epoch' = epoch + 1
            /\ pc' = "epoch"
            /\ checkpoint' = <<state_dict(models[t_model])>>
            /\ writes' = writes + 1
            /\ saved_from' = <<models[t_model]>>
            /\ UNCHANGED raised
    /\ UNCHANGED <<dataVars, models, t_model, t_epochs, batch, train_losses,
                   runs, start_state, ckpt_before, testVars, loopVars, replaced>>

\* val_loss = running_loss / len(val_loader.dataset); print; next epoch
ValPhaseEnd ==
    /\ pc = "valid"
    /\ batch = NumBatches(val_dataset)
    /\ IF Len(val_dataset.samples) = 0
       THEN /\ Abort("ZeroDivisionError")
            /\ UNCHANGED <<val_losses, epoch>>
       ELSE /\ val_losses' = val_losses + 1
            /\ epoch' = epoch + 1
            /\ pc' = "epoch"
            /\ UNCHANGED raised
    /\ UNCHANGED <<dataVars, checkpoint, models, t_model, t_epochs, batch,
                   train_losses, runs, start_state, ckpt_before, writes,
                   saved_from, testVars, loopVars, replaced>>

\* plt.plot ... plt.show(): the loss curves
Plot ==
    /\ pc = "plot"
    /\ pc' = "save"
    /\ UNCHANGED <<dataVars, checkpoint, models, raised, trainVars, testVars,
                   loopVars, replaced>>

\* torch.save(model.state_dict(), model_path); train_model returns
Save ==
    /\ pc = "save"
    /\ checkpoint' = <<state_dict(models[t_model])>>
    /\ writes' = writes + 1
    /\ saved_from' = <<models[t_model]>>
    /\ pc' = "idle"
    /\ UNCHANGED <<dataVars, models, raised, t_model, t_epochs, epoch, batch,
                   train_losses, val_losses, runs, start_state, ckpt_before,
                   testVars, loopVars, replaced>>

----------------------------------------------------------------------------
(* TEST MODEL *)

\* if predicted_idx != label: wrong_predictions_count += 1
CountWrong(predicted_idx, label) == IF predicted_idx # label THEN 1 ELSE 0

\* A tally without the else: every sample counts as correct.
CountCorrectAlways(predicted_idx, label) == 1

\* else: correct_predictions_count += 1
CountCorrect(predicted_idx, label) == IF predicted_idx # label THEN 0 ELSE 1

RECURSIVE SumSeq(_)
SumSeq(s) == IF s = <<>> THEN 0 ELSE Head(s) + SumSeq(Tail(s))

\* test_model(model_path, model, visualize_wrong_predictions): load, counters
TestCall(mid) ==
    /\ Alive
    /\ LET l == load_model(checkpoint, models[mid]) IN
        /\ models' = [models EXCEPT ![mid] = l.model]
        /\ raised' = l.err
        /\ pc' = IF l.err = "none" THEN "testing" ELSE "idle"
    /\ e_model' = mid
    /\ test_i' = 0
    /\ wrong_predictions_count' = 0
    /\ correct_predictions_count' = 0
    /\ confidence_list' = <<>>
    /\ report' = <<>>
    /\ UNCHANGED <<dataVars, checkpoint, trainVars, loopVars, replaced>>

\* One iteration of the loop over test_dataset.
TestSample ==
    /\ pc = "testing"
    /\ test_i < Len(test_dataset.samples)
    /\ LET sample == test_dataset.samples[test_i + 1]
           m == models[e_model]
           predicted_idx == ArgMax(m, sample.image)
       IN IF predicted_idx >= Len(class_names) \/ sample.label >= Len(class_names)
          THEN /\ Abort("IndexError")
               /\ UNCHANGED <<test_i, wrong_predictions_count,
                              correct_predictions_count, confidence_list>>
          ELSE /\ confidence_list' =
                      Append(confidence_list, Confidence(m, sample.image))
               /\ wrong_predictions_count' = wrong_predictions_count
                      + CountWrong(predicted_idx, sample.label)
               /\ correct_predictions_count' = correct_predictions_count
                      + CountCorrect(predicted_idx, sample.label)
               /\ test_i' = test_i + 1
               /\ UNCHANGED <<pc, raised>>
    /\ UNCHANGED <<dataVars, checkpoint, models, trainVars, e_model,
                   report, loopVars, replaced>>

\* acuracy = correct / (correct + wrong) * 100; avr_confidence = sum / len; prints
TestFinish ==
    /\ pc = "testing"
    /\ test_i = Len(test_dataset.samples)
    /\ IF correct_predictions_count + wrong_predictions_count = 0
          \/ Len(confidence_list) = 0
       THEN /\ Abort("ZeroDivisionError")
            /\ UNCHANGED report
       ELSE /\ report' = <<
                 [correct |-> correct_predictions_count,
                  wrong |-> wrong_predictions_count,
                  accuracy |-> [num |-> correct_predictions_count * 100,
                                den |-> correct_predictions_count
                                        + wrong_predictions_count],
                  avr_confidence |-> SumSeq(confidence_list)
                                     \div Len(confidence_list)] >>
            /\ pc' = "idle"
            /\ UNCHANGED raised
    /\ UNCHANGED <<dataVars, checkpoint, models, trainVars, e_model,
                   test_i, wrong_predictions_count, correct_predictions_count,
                   confidence_list, loopVars, replaced>>

----------------------------------------------------------------------------
(* USAGE *)

\* predict(model, image_tensor, device): model.eval(), forward, softmax
predict(m, img) ==
    LET em == SetMode(m, FALSE) IN
    [model |-> em, predicted_idx |-> ArgMax(em, img),
     confidence |-> Confidence(em, img)]

\* predict_image(model_path, image_path, model, visualize_result): what it
\* leaves in `model`, what it raises and what it returns.
predict_image(file, m, img) ==
    LET l == load_model(file, m) IN
    IF l.err # "none"
    THEN [model |-> l.model, err |-> l.err, value |-> <<>>]
    ELSE LET p == predict(l.model, img) IN
         IF p.predicted_idx >= Len(class_names)
         THEN [model |-> p.model, err |-> "IndexError", value |-> <<>>]
         ELSE [model |-> p.model, err |-> "none",
               value |-> <<class_names[p.predicted_idx + 1], p.confidence>>]

\* The history record of a call that returned.
Returned(mid, img, out) ==
    [image |-> img, model |-> mid, file |-> checkpoint, value |-> out.value,
     after |-> out.model, saved |-> saved_from]

\* A single call of predict_image from the top level (main.py:12).
PredictSingle(mid, img) ==
    /\ Alive
    /\ results = <<>>
    /\ LET out == predict_image(checkpoint, models[mid], img) IN
        /\ models' = [models EXCEPT ![mid] = out.model]
        /\ raised' = out.err
        /\ results' = IF out.err = "none"
                      THEN Append(results, Returned(mid, img, out)) ELSE results
    /\ UNCHANGED <<dataVars, checkpoint, pc, trainVars, testVars, images, loop_i,
                   loop_base, replaced>>

\* images = glob("./dataset/predict/*")
Glob(found) ==
    /\ Alive
    /\ results # <<>>
    /\ images' = found
    /\ loop_i' = 0
    /\ loop_base' = Len(results)
    /\ pc' = "loop"
    /\ UNCHANGED <<dataVars, checkpoint, models, raised, trainVars, testVars,
                   results, replaced>>

\* An iteration that walks the list from its end.
NextImageReversed(imgs, i) == imgs[Len(imgs) - i]

\* for image in images: the path of the next iteration
NextImage(imgs, i) == imgs[i + 1]

\* predict_image(model_path, image_path=image, visualize_result=True) in the loop
LoopPredict(mid) ==
    /\ pc = "loop"
    /\ loop_i < Len(images)
    /\ LET img == NextImage(images, loop_i)
           out == predict_image(checkpoint, models[mid], img)
       IN /\ models' = [models EXCEPT ![mid] = out.model]
          /\ IF out.err = "none"
             THEN /\ results' = Append(results, Returned(mid, img, out))
                  /\ loop_i' = loop_i + 1
                  /\ UNCHANGED <<pc, raised>>
             ELSE /\ Abort(out.err)
                  /\ UNCHANGED <<results, loop_i>>
    /\ UNCHANGED <<dataVars, checkpoint, trainVars, testVars, images, loop_base,
                   replaced>>

\* The loop has taken every path.
LoopEnd ==
    /\ pc = "loop"
    /\ loop_i = Len(images)
    /\ pc' = "done"
    /\ UNCHANGED <<dataVars, checkpoint, models, raised, trainVars, testVars,
                   loopVars, replaced>>

----------------------------------------------------------------------------
(* The environment: what is on disk *)

\* Content of the k-th file of directory c.
FileImage(c, k) == (c + k) % (MaxImage + 1)

Files(c, n) == [k \in 1..n |-> FileImage(c, k)]

\* A split directory: some class subdirectories, each with some image files.
Layouts ==
    UNION {{[c \in D |-> Files(c, cnt[c])] : cnt \in [D -> 0..MaxFiles]} :
           D \in SUBSET Dirs}

\* A split whose single class holds n files.
OneClass(n) == [c \in {1} |-> Files(c, n)]

\* A split of the class subdirectories 1..n with MaxFiles files each.
DirLayouts == {[c \in 1..n |-> Files(c, MaxFiles)] : n \in 0..MaxDirs}

\* Split sizes that give no batch, and a full batch followed by a short one.
SplitSizes == {0, BatchSize + 1}

NclsChoices == (1..MaxDirs) \cup {DefaultNumClasses}

\* A checkpoint file that an earlier train_model run wrote: a Classifier of
\* some num_classes after v optimizer steps.
Checkpoints ==
    {<<>>} \cup
    {<<[ncls |-> n, bb |-> v, head |-> v, bn |-> v]>> :
        n \in NclsChoices, v \in 0..MaxParam}

\* The checkpoint files of the default architecture, and no file.
DefaultCheckpoints ==
    {file \in Checkpoints : file = <<>> \/ file[1].ncls = DefaultNumClasses}

\* What glob("./dataset/predict/*") can return.
GlobResults == {Files(0, n) : n \in 0..MaxGlob}

\* Another process replaces the checkpoint file between two calls.
ReplaceCheckpoint(file) ==
    /\ pc \in {"idle", "loop"}
    /\ raised = "none"
    /\ ~replaced
    /\ file # checkpoint
    /\ checkpoint' = file
    /\ saved_from' = <<>>
    /\ replaced' = TRUE
    /\ UNCHANGED <<dataVars, models, pc, raised, t_model, t_epochs, epoch, batch,
                   train_losses, val_losses, runs, start_state, ckpt_before,
                   writes, testVars, loopVars>>

----------------------------------------------------------------------------
(* Import of model.py and the specifications *)

\* The frames of the three functions before any call.
NoCall ==
    /\ raised = "none"
    /\ t_model = "none" /\ t_epochs = 0 /\ epoch = 0 /\ batch = 0
    /\ train_losses = 0 /\ val_losses = 0 /\ runs = 0
    /\ start_state = <<>> /\ ckpt_before = <<>> /\ writes = 0
    /\ saved_from = <<>>
    /\ e_model = "none" /\ test_i = 0
    /\ wrong_predictions_count = 0 /\ correct_predictions_count = 0
    /\ confidence_list = <<>> /\ report = <<>>
    /\ images = <<>> /\ loop_i = 0 /\ loop_base = 0 /\ results = <<>>
    /\ replaced = FALSE

\* The process after `from model import ...` and main.py:6.
Imported(d, file, user_ncls) ==
    /\ disk = d
    /\ train_dataset = PlayingCardDataset(d.train)
    /\ val_dataset = PlayingCardDataset(d.valid)
    /\ test_dataset = PlayingCardDataset(d.test)
    /\ class_names = PlayingCardDataset(d.test).classes
    /\ checkpoint = file
    /\ models = ModelsAtImport(user_ncls)
    /\ pc = "idle"
    /\ NoCall

\* Module level of model.py: the three datasets, class_names, the defaults.
Import(user_ncls) ==
    /\ pc = "import"
    /\ train_dataset' = PlayingCardDataset(disk.train)
    /\ val_dataset' = PlayingCardDataset(disk.valid)
    /\ test_dataset' = PlayingCardDataset(disk.test)
    /\ class_names' = PlayingCardDataset(disk.test).classes
    /\ models' = ModelsAtImport(user_ncls)
    /\ pc' = "idle"
    /\ UNCHANGED <<disk, checkpoint, raised, trainVars, testVars, loopVars,
                   replaced>>

\* The names of model.py before the import binds them.
NotLoaded == [classes |-> <<>>, samples |-> <<>>]
NotConstructed == [ncls |-> 0, bb |-> 0, head |-> 0, bn |-> 0, training |-> FALSE]

\* Import of model.py over every layout of the three split directories.
InitData ==
    /\ disk \in [train : Layouts, valid : Layouts, test : Layouts]
    /\ train_dataset = NotLoaded /\ val_dataset = NotLoaded
    /\ test_dataset = NotLoaded
    /\ class_names = <<>>
    /\ checkpoint = <<>>
    /\ models = [id \in ModelIds |-> NotConstructed]
    /\ pc = "import"
    /\ NoCall

NextData == \E n \in NclsChoices : Import(n)

SpecData == InitData /\ [][NextData]_vars

\* A process that calls train_model up to MaxRuns times and predict_image once.
InitTrain ==
    \E tr \in SplitSizes, va \in SplitSizes, file \in DefaultCheckpoints :
        Imported([train |-> OneClass(tr), valid |-> OneClass(va),
                  test |-> [c \in Dirs |-> Files(c, 1)]], file, DefaultNumClasses)

NextTrain ==
    \/ \E mid \in {"train_default", "user"}, ep \in 0..MaxEpochs : TrainCall(mid, ep)
    \/ EpochHead
    \/ TrainBatch
    \/ BatchError
    \/ TrainPhaseEnd
    \/ ValBatch
    \/ ValPhaseEnd
    \/ Plot
    \/ Save
    \/ \E mid \in {"predict_default", "user"}, img \in Images : PredictSingle(mid, img)

SpecTrain == InitTrain /\ [][NextTrain]_vars

\* A process that calls test_model.
InitEval ==
    \E t \in Layouts, file \in Checkpoints, n \in NclsChoices :
        Imported([train |-> t, valid |-> t, test |-> t], file, n)

NextEval ==
    \/ \E mid \in {"test_default", "user"} : TestCall(mid)
    \/ TestSample
    \/ TestFinish

SpecEval == InitEval /\ [][NextEval]_vars

\* main.py: one predict_image call, then one call per globbed path, while
\* another process may replace the checkpoint file once.
Init ==
    \E t \in DirLayouts, file \in Checkpoints, n \in NclsChoices :
        Imported([train |-> t, valid |-> t, test |-> t], file, n)

Next ==
    \/ \E mid \in {"predict_default", "user"}, img \in Images : PredictSingle(mid, img)
    \/ \E found \in GlobResults : Glob(found)
    \/ \E mid \in {"predict_default", "user"} : LoopPredict(mid)
    \/ LoopEnd
    \/ \E file \in Checkpoints : ReplaceCheckpoint(file)

Spec == Init /\ [][Next]_vars

----------------------------------------------------------------------------
(* Properties *)

InRun == pc \in {"epoch", "train", "valid", "plot", "save"}

TrainAborted == pc = "idle" /\ raised \in {"OSError", "ZeroDivisionError"}

TrainReturned ==
    pc = "idle" /\ t_model # "none" /\ raised \notin {"OSError", "ZeroDivisionError"}

TestEnded == pc = "idle" /\ e_model # "none"

Tensors(m) == <<m.ncls, m.bb, m.head, m.bn>>

\* C1: with an empty test split, a test_model call whose checkpoint loaded
\* ends without an exception and with a report.
C1_EmptyTestSplitReports ==
    (/\ TestEnded
     /\ Len(test_dataset.samples) = 0
     /\ raised \notin {"FileNotFoundError", "RuntimeError"})
    => (raised = "none" /\ report # <<>>)

\* C2: in test_model the two counters add up to the number of samples
\* processed so far, and a reported accuracy lies between 0 and 100.
C2_CountsAndAccuracy ==
    /\ correct_predictions_count + wrong_predictions_count = test_i
    /\ test_i <= Len(test_dataset.samples)
    /\ report # <<>> =>
        /\ report[1].correct + report[1].wrong = Len(test_dataset.samples)
        /\ report[1].accuracy.den = Len(test_dataset.samples)
        /\ 0 <= report[1].accuracy.num
        /\ report[1].accuracy.num <= 100 * report[1].accuracy.den

\* A test run over two samples that got one right and one wrong.
C2_Witness ==
    /\ report # <<>>
    /\ report[1].correct >= 1
    /\ report[1].wrong >= 1

\* C3: after the import the three splits have the same class list, which is
\* class_names, whatever the layout of the three split directories.
C3_SameVocabulary ==
    pc = "idle" =>
        /\ train_dataset.classes = val_dataset.classes
        /\ val_dataset.classes = test_dataset.classes
        /\ class_names = train_dataset.classes

\* C4: a train_model call without a model argument starts from the state of
\* a freshly constructed Classifier.
C4_DefaultStartsFresh ==
    t_model = "train_default" =>
        start_state = <<state_dict(SimpleCardClassifier(DefaultNumClasses))>>

\* C5: a train_model run writes the checkpoint at most once; while it runs
\* and after it aborted the file is what it was before the run; after it
\* returned every epoch has been trained and validated and the file holds the
\* final state of the model.
C5_CheckpointOnceAtEnd ==
    /\ writes <= 1
    /\ (InRun \/ TrainAborted) => (writes = 0 /\ checkpoint = ckpt_before)
    /\ TrainReturned =>
        /\ writes = 1
        /\ epoch = t_epochs
        /\ train_losses = t_epochs
        /\ val_losses = t_epochs
        /\ checkpoint = <<state_dict(models[t_model])>>

\* A second run that aborted in a later epoch, over the file the first run wrote.
C5_Witness ==
    /\ TrainAborted
    /\ runs = 2
    /\ epoch >= 1
    /\ saved_from # <<>>
    /\ ckpt_before # <<>>
    /\ ckpt_before # <<state_dict(models[t_model])>>

\* C6: the loop of main.py has produced one pair per path taken, the i-th
\* for the i-th path, and all of them when it is done.
C6_OnePairPerPathInOrder ==
    pc \in {"loop", "done"} =>
        /\ Len(results) = loop_base + loop_i
        /\ \A i \in 1..loop_i : results[loop_base + i].image = images[i]
        /\ pc = "done" => loop_i = Len(images)

\* The loop is done over two different images.
C6_Witness ==
    /\ pc = "done"
    /\ Len(images) = 2
    /\ images[1] # images[2]
    /\ Len(results) = loop_base + 2

\* What a checkpoint file and an image alone determine.
FromFile(file, img) ==
    LET m == [ncls |-> file[1].ncls, bb |-> file[1].bb, head |-> file[1].head,
              bn |-> file[1].bn, training |-> FALSE]
    IN <<class_names[ArgMax(m, img) + 1], Confidence(m, img)>>

\* C7: every predict_image call returned what the checkpoint file at the
\* time of the call and the image determine, and left the model with the
\* tensors of that file.
C7_NoStateBetweenCalls ==
    \A i \in 1..Len(results) :
        /\ results[i].file # <<>>
        /\ results[i].value = FromFile(results[i].file, results[i].image)
        /\ <<state_dict(results[i].after)>> = results[i].file

\* Two calls on the same model object and image, around a replacement of the
\* file, that returned different pairs.
C7_Witness ==
    \E i, j \in 1..Len(results) :
        /\ i < j
        /\ results[i].model = results[j].model
        /\ results[i].image = results[j].image
        /\ results[i].file # results[j].file
        /\ results[i].value # results[j].value

\* C8: a model loaded from the file train_model saved has the tensors of the
\* saved model and predicts what the saved model predicts.
C8_RoundTrip ==
    \A i \in 1..Len(results) :
        results[i].saved # <<>> =>
            LET r == results[i]
                p == predict(r.saved[1], r.image)
            IN /\ Tensors(r.after) = Tensors(r.saved[1])
               /\ r.value = <<class_names[p.predicted_idx + 1], p.confidence>>

\* The default model of predict_image, fresh, loaded a trained checkpoint.
C8_Witness ==
    \E i \in 1..Len(results) :
        /\ results[i].saved # <<>>
        /\ results[i].model = "predict_default"
        /\ results[i].saved[1].bb >= 2
        /\ results[i].saved[1].bn >= 2

C9_Step ==
    /\ pc' = "train" => models'[t_model'].training
    /\ pc' = "valid" => ~models'[t_model'].training
    /\ (InRun /\ \E id \in ModelIds : Tensors(models'[id]) # Tensors(models[id])) =>
        /\ pc = "train"
        /\ batch' = batch + 1
        /\ \A id \in ModelIds \ {t_model} : models'[id] = models[id]
        /\ models'[t_model].bb = models[t_model].bb + 1
        /\ models'[t_model].head = models[t_model].head + 1
    /\ pc = "valid" => Tensors(models'[t_model]) = Tensors(models[t_model])

\* C9: the model is in training mode in the training phase and in evaluation
\* mode in the validation phase; during a run its tensors change only in a
\* training batch, by one optimizer step; validation changes none.
C9_ModesAndUpdates == [][C9_Step]_vars

\* Validation of a later epoch, after training batches and a validation batch.
C9_Witness ==
    /\ pc = "valid"
    /\ epoch >= 1
    /\ batch >= 1
    /\ models[t_model].bb >= 4

\* C10: the arg-max of a test_model prediction is an index into class_names.
C10_IndexInVocabulary ==
    (pc = "testing" /\ test_i < Len(test_dataset.samples)) =>
        ArgMax(models[e_model], test_dataset.samples[test_i + 1].image)
            < Len(class_names)

====
